---------------------------- MODULE Spec2Model ----------------------------
(***************************************************************************)
(* Model of app.py: the line aligner (side_by_side_diff over               *)
(* difflib.SequenceMatcher opcodes), the per-record aggregate query        *)
(* (file_diff_status), the folder comparison (list_files, rel_map,         *)
(* should_ignore, compare_folders) and the connection handling of the      *)
(* "Run comparison" block (connect_sftp, try/finally).                     *)
(*                                                                         *)
(* Python sequences are modelled as TLA+ sequences.  Python indices are    *)
(* kept as they are in the code (0-based, half-open ranges), so element i  *)
(* of a Python list s is s[i+1] here.  Strings that the code slices or     *)
(* pattern-matches (paths, glob patterns) are sequences of one-character   *)
(* strings; line texts, which the code only compares for equality, are     *)
(* TLA+ strings.                                                           *)
(***************************************************************************)
EXTENDS Integers, Sequences, FiniteSets, TLC

VARIABLES
    \* ---- side_by_side_diff(lines_old, lines_new) / file_diff_status ----
    lines_old,      \* argument: the old file's lines
    lines_new,      \* argument: the new file's lines
    opcodes,        \* sm.get_opcodes(), fixed when the loop starts
    opidx,          \* number of opcodes the for loop has consumed
    diff,           \* the local list `diff`
    dstatus,        \* file_diff_status("Side-by-side diff", diff), once asked
    dpc,            \* position in side_by_side_diff: "call", "loop", "done", "queried"
    \* ---- compare_folders ----
    remote,         \* the two remote trees: side -> [files, fails]
    folder_old,     \* argument
    folder_new,     \* argument
    ignore_patterns,\* argument: list of glob patterns
    hide_ignored,   \* argument
    progress_callback, \* argument: None or the callback
    files_old,      \* local dict: relative path -> absolute path
    files_new,      \* local dict
    all_files,      \* local list: sorted union of the keys
    i,              \* loop counter of enumerate(all_files, 1): next index to handle
    diffs,          \* local list of (rel, file_status, diff_lines)
    events,         \* what the run did to its collaborators, in order:
                    \* content reads and progress callback calls, with a
                    \* mark for each record appended
    pc,             \* position in compare_folders: "call", "loop", "done", "raised"
    \* ---- the "Run comparison" block ----
    same_server,    \* the sidebar checkbox
    sftp_old,       \* the block's four names: None or the object bound
    t_old,
    sftp_new,
    t_new,
    connecting,     \* the side connect_sftp is being called for
    transport,      \* connect_sftp's local `transport`
    open_now,       \* the transports and SFTP clients open at present
    opened,         \* those opened at any time in this run
    exc,            \* the exception leaving the try block, or None
    cpc             \* position in the block

dvars == <<lines_old, lines_new, opcodes, opidx, diff, dstatus, dpc>>
cvars == <<remote, folder_old, folder_new, ignore_patterns, hide_ignored,
           progress_callback, files_old, files_new, all_files, i, diffs, events, pc>>
nvars == <<same_server, sftp_old, t_old, sftp_new, t_new, connecting, transport,
           open_now, opened, exc, cpc>>
vars == <<dvars, cvars, nvars>>

-----------------------------------------------------------------------------
(* Bounds *)

\* longest line sequence given to side_by_side_diff
MaxLen == 3

\* line texts; the empty line is the text side_by_side_diff also pads with
LineTexts == {"", "a", "b"}

SeqsUpTo(S, n) == UNION {[1..k -> S] : k \in 0..n}

Max(x, y) == IF x >= y THEN x ELSE y

None == "None"

-----------------------------------------------------------------------------
(* difflib.SequenceMatcher(None, a, b), as called at line 80: isjunk is    *)
(* None (so bjunk is empty) and autojunk keeps its default, True.          *)

\* __chain_b: `if self.autojunk and n >= 200`
AutojunkMinLen == 200

\* __chain_b: number of indices of elt in b2j before popular elements are purged
CountIn(b, elt) == Cardinality({jb \in 1..Len(b) : b[jb] = elt})

\* __chain_b: the elements purged from b2j as popular (ntest = n // 100 + 1)
bpopular(b) ==
    IF Len(b) >= AutojunkMinLen
    THEN {b[jb] : jb \in {x \in 1..Len(b) : CountIn(b, b[x]) > (Len(b) \div 100) + 1}}
    ELSE {}

\* find_longest_match: the value k = newj2len[j] the inner loop computes at
\* (i, j), here (ia, jb): the length of the match through b2j that ends
\* with a[i] and b[j]
\* inside a[alo:..], b[blo:..]; 0 when j is not in b2j[a[i]].
RECURSIVE j2len(_, _, _, _, _, _)
j2len(a, b, alo, blo, ia, jb) ==
    IF ia < alo \/ jb < blo THEN 0
    ELSE IF a[ia+1] # b[jb+1] \/ b[jb+1] \in bpopular(b) THEN 0
    ELSE j2len(a, b, alo, blo, ia-1, jb-1) + 1

\* find_longest_match: the two nested for loops, i ascending over
\* range(alo, ahi) and j ascending over b2j[a[i]] within [blo, bhi);
\* best = <<besti, bestj, bestsize>> is replaced only when k > bestsize.
RECURSIVE flm_scan(_, _, _, _, _, _, _, _, _)
flm_scan(a, b, alo, ahi, blo, bhi, ia, jb, best) ==
    IF ia >= ahi THEN best
    ELSE IF jb >= bhi THEN flm_scan(a, b, alo, ahi, blo, bhi, ia+1, blo, best)
    ELSE LET k == j2len(a, b, alo, blo, ia, jb)
         IN flm_scan(a, b, alo, ahi, blo, bhi, ia, jb+1,
                     IF k > best[3] THEN <<ia-k+1, jb-k+1, k>> ELSE best)

\* find_longest_match: first while loop (extend the match backwards by
\* elements that are not junk; popular elements are not junk)
RECURSIVE flm_extend_back(_, _, _, _, _)
flm_extend_back(a, b, alo, blo, best) ==
    IF best[1] > alo /\ best[2] > blo /\ a[best[1]] = b[best[2]]
    THEN flm_extend_back(a, b, alo, blo, <<best[1]-1, best[2]-1, best[3]+1>>)
    ELSE best

\* find_longest_match: second while loop (extend the match forwards)
RECURSIVE flm_extend_fwd(_, _, _, _, _)
flm_extend_fwd(a, b, ahi, bhi, best) ==
    IF best[1]+best[3] < ahi /\ best[2]+best[3] < bhi
       /\ a[best[1]+best[3]+1] = b[best[2]+best[3]+1]
    THEN flm_extend_fwd(a, b, ahi, bhi, <<best[1], best[2], best[3]+1>>)
    ELSE best

\* find_longest_match without the scan through b2j: only the extension
\* loops run, from the empty match at (alo, blo)
find_longest_match_noscan(a, b, alo, ahi, blo, bhi) ==
    flm_extend_fwd(a, b, ahi, bhi, flm_extend_back(a, b, alo, blo, <<alo, blo, 0>>))

\* find_longest_match(alo, ahi, blo, bhi) -> Match(besti, bestj, bestsize).
\* The last two while loops of the code extend by junk elements only and
\* never run, bjunk being empty.
find_longest_match(a, b, alo, ahi, blo, bhi) ==
    flm_extend_fwd(a, b, ahi, bhi,
        flm_extend_back(a, b, alo, blo,
            flm_scan(a, b, alo, ahi, blo, bhi, alo, blo, <<alo, blo, 0>>)))

\* get_matching_blocks: the queue loop followed by matching_blocks.sort().
\* Every block found left of a match precedes it and every block found
\* right of it follows it, so the sorted list is the in-order list.
RECURSIVE matching_blocks(_, _, _, _, _, _)
matching_blocks(a, b, alo, ahi, blo, bhi) ==
    LET x == find_longest_match(a, b, alo, ahi, blo, bhi)
        ia == x[1]
        jb == x[2]
        k == x[3]
    IN IF k = 0 THEN <<>>
       ELSE (IF alo < ia /\ blo < jb
             THEN matching_blocks(a, b, alo, ia, blo, jb) ELSE <<>>)
            \o <<x>>
            \o (IF ia+k < ahi /\ jb+k < bhi
                THEN matching_blocks(a, b, ia+k, ahi, jb+k, bhi) ELSE <<>>)

\* get_matching_blocks: the loop collapsing adjacent blocks; cur is
\* (i1, j1, k1), n the number of blocks consumed
RECURSIVE collapse(_, _, _, _)
collapse(blocks, n, cur, acc) ==
    IF n = Len(blocks)
    THEN IF cur[3] # 0 THEN Append(acc, cur) ELSE acc
    ELSE LET nb == blocks[n+1]
         IN IF cur[1] + cur[3] = nb[1] /\ cur[2] + cur[3] = nb[2]
            THEN collapse(blocks, n+1, <<cur[1], cur[2], cur[3] + nb[3]>>, acc)
            ELSE collapse(blocks, n+1, nb,
                          IF cur[3] # 0 THEN Append(acc, cur) ELSE acc)

\* get_matching_blocks(): non_adjacent blocks plus the sentinel (la, lb, 0)
get_matching_blocks(a, b) ==
    Append(collapse(matching_blocks(a, b, 0, Len(a), 0, Len(b)), 0, <<0, 0, 0>>, <<>>),
           <<Len(a), Len(b), 0>>)

\* get_opcodes: the loop over the matching blocks; i, j are the positions
\* reached in a and b, n the number of blocks consumed
RECURSIVE opcodes_from(_, _, _, _, _)
opcodes_from(blocks, n, ia, jb, answer) ==
    IF n = Len(blocks) THEN answer
    ELSE LET ai == blocks[n+1][1]
             bj == blocks[n+1][2]
             size == blocks[n+1][3]
             tag == IF ia < ai /\ jb < bj THEN "replace"
                    ELSE IF ia < ai THEN "delete"
                    ELSE IF jb < bj THEN "insert"
                    ELSE ""
             a1 == IF tag # "" THEN Append(answer, <<tag, ia, ai, jb, bj>>) ELSE answer
             a2 == IF size # 0
                   THEN Append(a1, <<"equal", ai, ai+size, bj, bj+size>>) ELSE a1
         IN opcodes_from(blocks, n+1, ai+size, bj+size, a2)

\* sm.get_opcodes(): list of (tag, i1, i2, j1, j2)
get_opcodes(a, b) == opcodes_from(get_matching_blocks(a, b), 0, 0, 0, <<>>)

-----------------------------------------------------------------------------
(* side_by_side_diff *)

\* s[lo:hi] of a Python list
Slice(s, lo, hi) == [k \in 1..(hi - lo) |-> s[lo + k]]

\* chunk += [""] * (max_len - len(chunk))
Pad(chunk, max_len) == [k \in 1..max_len |-> IF k <= Len(chunk) THEN chunk[k] ELSE ""]

\* the status expression with the tests for "equal" and "replace" exchanged
StatusOf_swapped(tag) ==
    IF tag = "replace" THEN "Unchanged"
    ELSE IF tag = "equal" THEN "Modified"
    ELSE IF tag = "delete" THEN "Removed"
    ELSE "Added"

\* the conditional expression that sets `status` from the opcode's tag
StatusOf(tag) ==
    IF tag = "equal" THEN "Unchanged"
    ELSE IF tag = "replace" THEN "Modified"
    ELSE IF tag = "delete" THEN "Removed"
    ELSE "Added"

\* the loop body with a replace run's padded positions reported as
\* Added / Removed instead of Modified
OpcodePairs_padsplit(a, b, op) ==
    LET old_chunk == Slice(a, op[2], op[3])
        new_chunk == Slice(b, op[4], op[5])
        max_len == Max(Len(old_chunk), Len(new_chunk))
        old_pad == Pad(old_chunk, max_len)
        new_pad == Pad(new_chunk, max_len)
    IN [k \in 1..max_len |->
          <<old_pad[k], new_pad[k],
            IF op[1] = "replace" /\ k > Len(old_chunk) THEN "Added"
            ELSE IF op[1] = "replace" /\ k > Len(new_chunk) THEN "Removed"
            ELSE StatusOf(op[1])>>]

\* one iteration of `for tag, i1, i2, j1, j2 in sm.get_opcodes()`: the
\* triples (o, n, status) it appends to diff
OpcodePairs(a, b, op) ==
    LET old_chunk == Slice(a, op[2], op[3])
        new_chunk == Slice(b, op[4], op[5])
        max_len == Max(Len(old_chunk), Len(new_chunk))
        old_pad == Pad(old_chunk, max_len)
        new_pad == Pad(new_chunk, max_len)
    IN [k \in 1..max_len |-> <<old_pad[k], new_pad[k], StatusOf(op[1])>>]

RECURSIVE diff_from(_, _, _, _)
diff_from(a, b, ops, n) ==
    IF n = 0 THEN <<>>
    ELSE diff_from(a, b, ops, n-1) \o OpcodePairs(a, b, ops[n])

\* side_by_side_diff(lines_old, lines_new) as one call
side_by_side_diff(a, b) ==
    LET ops == get_opcodes(a, b) IN diff_from(a, b, ops, Len(ops))

\* file_diff_status with all() in place of any()
file_diff_status_all(file_status, diff_lines) ==
    IF file_status = "Side-by-side diff"
    THEN IF \A k \in 1..Len(diff_lines) : diff_lines[k][3] # "Unchanged"
         THEN "Changed" ELSE "No differences"
    ELSE IF file_status = "Only in Old Folder" THEN "Only in Old"
    ELSE IF file_status = "Only in New Folder" THEN "Only in New"
    ELSE file_status

\* file_diff_status(file_status, diff_lines)
file_diff_status(file_status, diff_lines) ==
    IF file_status = "Side-by-side diff"
    THEN IF \E k \in 1..Len(diff_lines) : diff_lines[k][3] # "Unchanged"
         THEN "Changed" ELSE "No differences"
    ELSE IF file_status = "Only in Old Folder" THEN "Only in Old"
    ELSE IF file_status = "Only in New Folder" THEN "Only in New"
    ELSE file_status

-----------------------------------------------------------------------------
(* Paths and patterns: sequences of one-character strings *)

\* ord(c) of the characters the model's paths and patterns are made of
CharOrd(c) ==
    CASE c = "*" -> 42
      [] c = "." -> 46
      [] c = "/" -> 47
      [] c = "?" -> 63
      [] c = "a" -> 97
      [] c = "d" -> 100
      [] c = "n" -> 110
      [] c = "o" -> 111
      [] c = "x" -> 120

\* s < t for Python str: lexicographic by code point, a proper prefix first
RECURSIVE StrLess(_, _)
StrLess(s, t) ==
    IF t = <<>> THEN FALSE
    ELSE IF s = <<>> THEN TRUE
    ELSE IF Head(s) # Head(t) THEN CharOrd(Head(s)) < CharOrd(Head(t))
    ELSE StrLess(Tail(s), Tail(t))

\* s.startswith(prefix)
startswith(s, prefix) ==
    /\ Len(s) >= Len(prefix)
    /\ SubSeq(s, 1, Len(prefix)) = prefix

\* s[n:]
DropFirst(s, n) == IF n >= Len(s) THEN <<>> ELSE SubSeq(s, n+1, Len(s))

\* path.rstrip("/")
RECURSIVE rstrip_slash(_)
rstrip_slash(path) ==
    IF path # <<>> /\ path[Len(path)] = "/"
    THEN rstrip_slash(SubSeq(path, 1, Len(path) - 1))
    ELSE path

\* posixpath.join(a, b)
posixpath_join(a, b) ==
    IF b # <<>> /\ Head(b) = "/" THEN b
    ELSE IF a = <<>> \/ a[Len(a)] = "/" THEN a \o b
    ELSE a \o <<"/">> \o b

\* fnmatch.fnmatch(name, pat) on POSIX (normcase is the identity): "*"
\* matches any run of characters, "/" included, "?" any one character, any
\* other character itself.  Bracket expressions are not modelled; no
\* pattern of the model holds a "[".
RECURSIVE fnmatch(_, _)
fnmatch(name, pat) ==
    IF pat = <<>> THEN name = <<>>
    ELSE IF Head(pat) = "*"
         THEN fnmatch(name, Tail(pat)) \/ (name # <<>> /\ fnmatch(Tail(name), pat))
    ELSE IF name = <<>> THEN FALSE
    ELSE IF Head(pat) = "?" THEN fnmatch(Tail(name), Tail(pat))
    ELSE Head(pat) = Head(name) /\ fnmatch(Tail(name), Tail(pat))

\* should_ignore(rel_path, patterns)
should_ignore(rel_path, patterns) ==
    \E k \in 1..Len(patterns) : fnmatch(rel_path, patterns[k])

-----------------------------------------------------------------------------
(* The remote trees.  Each side's server holds, under its root, a subset   *)
(* of the files a, a.x and d/a.x; listing the root or the directory d may  *)
(* fail.                                                                   *)

Sides == {"old", "new"}

RemoteRoot(side) == IF side = "old" THEN <<"/", "o">> ELSE <<"/", "n">>

File_a == <<"a">>
File_ax == <<"a", ".", "x">>
Dir_d == <<"d">>
File_d_ax == <<"d", "/", "a", ".", "x">>

TreeFiles == {File_a, File_ax, File_d_ax}

\* the outcome of a call: the value it returns, or an exception leaving it
Returned(v) == [raised |-> FALSE, value |-> v]
Raised(v) == [raised |-> TRUE, value |-> v]

\* sftp.listdir_attr(path): the entries <<filename, is a directory>> in the
\* server's order, or an exception when the server fails to list path
listdir_attr(sftp, path) ==
    LET root == RemoteRoot(sftp)
        present == remote[sftp].files
    IN IF path = root
       THEN IF <<>> \in remote[sftp].fails THEN Raised(<<>>)
            ELSE Returned(
                 (IF File_d_ax \in present THEN <<<<Dir_d, TRUE>>>> ELSE <<>>)
                 \o (IF File_ax \in present THEN <<<<File_ax, FALSE>>>> ELSE <<>>)
                 \o (IF File_a \in present THEN <<<<File_a, FALSE>>>> ELSE <<>>))
       ELSE IF path = root \o <<"/">> \o Dir_d /\ File_d_ax \in present
       THEN IF Dir_d \in remote[sftp].fails THEN Raised(<<>>)
            ELSE Returned(<<<<File_ax, FALSE>>>>)
       ELSE Raised(<<>>)

\* list_files(sftp, path): the for loop over the entries, from entry n on,
\* with the files it has put in `files` when it ends or is left by an
\* exception; and the function itself, whose except clause turns an
\* exception into a return of the files gathered so far (none when
\* listdir_attr fails, which is before the loop)
RECURSIVE list_files(_, _)
RECURSIVE list_entries(_, _, _, _)
list_entries(sftp, path, entries, n) ==
    IF n > Len(entries) THEN Returned(<<>>)
    ELSE LET full == posixpath_join(path, entries[n][1])
             this == IF entries[n][2] THEN list_files(sftp, full)
                     ELSE Returned(<<full>>)
             rest == list_entries(sftp, path, entries, n+1)
         IN IF this.raised THEN Raised(<<>>)
            ELSE [raised |-> rest.raised, value |-> this.value \o rest.value]

\* list_files with no try/except: a failed listing propagates
list_files_uncaught(sftp, path0) ==
    LET path == rstrip_slash(path0)
        r == listdir_attr(sftp, path)
    IN IF r.raised THEN Raised(<<>>)
       ELSE list_entries(sftp, path, r.value, 1)

list_files(sftp, path0) ==
    LET path == rstrip_slash(path0)
        r == listdir_attr(sftp, path)
    IN IF r.raised THEN Returned(<<>>)
       ELSE Returned(list_entries(sftp, path, r.value, 1).value)

\* rel_map(files, root): the dict comprehension; a later f with the same
\* key replaces an earlier one
rel_map(files, root0) ==
    LET root == rstrip_slash(root0)
        kept == {k \in 1..Len(files) : startswith(files[k], root \o <<"/">>)}
        key(k) == DropFirst(files[k], Len(root) + 1)
        last(rel) == CHOOSE k \in kept : key(k) = rel /\ \A m \in kept : key(m) = rel => m <= k
    IN [rel \in {key(k) : k \in kept} |-> files[last(rel)]]

\* sorted(S) in descending order
RECURSIVE sorted_desc(_)
sorted_desc(S) ==
    IF S = {} THEN <<>>
    ELSE LET m == CHOOSE x \in S : \A y \in S : x = y \/ StrLess(y, x)
         IN <<m>> \o sorted_desc(S \ {m})

\* sorted(S) for a set of str
RECURSIVE sorted(_)
sorted(S) ==
    IF S = {} THEN <<>>
    ELSE LET m == CHOOSE x \in S : \A y \in S : x = y \/ StrLess(x, y)
         IN <<m>> \o sorted(S \ {m})

\* None, where the code holds a str or None
NoPath == [none |-> TRUE, path |-> <<>>]
SomePath(f) == [none |-> FALSE, path |-> f]

\* d.get(rel)
Get(d, rel) == IF rel \in DOMAIN d THEN SomePath(d[rel]) ELSE NoPath

\* truth value of a str-or-None: None and "" are false
Truthy(x) == ~x.none /\ x.path # <<>>

-----------------------------------------------------------------------------
(* compare_folders *)

\* longest content a modelled remote file has, in lines
MaxFileLines == 1

\* what read_file_lines(sftp, filepath) can return: None when the read
\* fails, else the list of the file's lines (empty for an empty file)
ReadNone == [none |-> TRUE, lines |-> <<>>]
ReadLines(l) == [none |-> FALSE, lines |-> l]
ReadResults == {ReadNone} \cup {ReadLines(l) : l \in SeqsUpTo({"a"}, MaxFileLines)}

\* the run block's variables while no run is being followed
ConnIdle ==
    /\ same_server = TRUE
    /\ sftp_old = None
    /\ t_old = None
    /\ sftp_new = None
    /\ t_new = None
    /\ connecting = None
    /\ transport = None
    /\ open_now = {}
    /\ opened = {}
    /\ exc = None
    /\ cpc = "idle"

\* the aligner's variables while no call of it is being followed
DiffIdle ==
    /\ lines_old = <<>>
    /\ lines_new = <<>>
    /\ opcodes = <<>>
    /\ opidx = 0
    /\ diff = <<>>
    /\ dstatus = None
    /\ dpc = "idle"

\* the branch `lo is None or ln is None` with truth tests in its place
Classify_falsy(lo, ln) ==
    IF lo.none \/ lo.lines = <<>> \/ ln.none \/ ln.lines = <<>>
    THEN <<"Binary or unreadable file", <<>>>>
    ELSE <<"Side-by-side diff", side_by_side_diff(lo.lines, ln.lines)>>

\* lines 130-133: the status and lines of a record for a path present on
\* both sides, from the two read results
Classify(lo, ln) ==
    IF lo.none \/ ln.none
    THEN <<"Binary or unreadable file", <<>>>>
    ELSE <<"Side-by-side diff", side_by_side_diff(lo.lines, ln.lines)>>

\* {} as a dict
EmptyDict == [rel \in {} |-> <<>>]

CompareIdle ==
    /\ remote = [s \in Sides |-> [files |-> {}, fails |-> {}]]
    /\ folder_old = <<>>
    /\ folder_new = <<>>
    /\ ignore_patterns = <<>>
    /\ hide_ignored = FALSE
    /\ progress_callback = None
    /\ files_old = EmptyDict
    /\ files_new = EmptyDict
    /\ all_files = <<>>
    /\ i = 0
    /\ diffs = <<>>
    /\ events = <<>>
    /\ pc = "idle"

\* the pattern lists the model runs with
PatternLists ==
    { <<>>,
      << <<"*", ".", "x">> >>,
      << <<"?">>, <<"d", "/", "?">> >> }

Init ==
    /\ DiffIdle
    /\ ConnIdle
    /\ remote \in [Sides -> [files : SUBSET TreeFiles,
                             fails : {{}, {<<>>}, {Dir_d}}]]
    /\ folder_old \in {RemoteRoot("old"), RemoteRoot("old") \o <<"/">>}
    /\ folder_new = RemoteRoot("new")
    /\ ignore_patterns \in PatternLists
    /\ hide_ignored \in BOOLEAN
    /\ progress_callback \in {None, "update_progress"}
    /\ files_old = EmptyDict
    /\ files_new = EmptyDict
    /\ all_files = <<>>
    /\ i = 0
    /\ diffs = <<>>
    /\ events = <<>>
    /\ pc = "call"

\* lines 105-111: both listings, both dicts, the sorted union, total
CompareStart ==
    /\ pc = "call"
    /\ LET lo == list_files("old", folder_old)
           ln == list_files("new", folder_new)
       IN IF lo.raised \/ ln.raised
          THEN /\ pc' = "raised"
               /\ UNCHANGED <<files_old, files_new, all_files, i>>
          ELSE /\ files_old' = rel_map(lo.value, folder_old)
               /\ files_new' = rel_map(ln.value, folder_new)
               /\ all_files' = sorted(DOMAIN files_old' \cup DOMAIN files_new')
               /\ i' = 1
               /\ pc' = "loop"
    /\ UNCHANGED <<remote, folder_old, folder_new, ignore_patterns, hide_ignored,
                   progress_callback, diffs, events, dvars, nvars>>

InLoop == pc = "loop" /\ i <= Len(all_files)

\* `if progress_callback: progress_callback(i, total, rel)`
Progress(rel) ==
    IF progress_callback # None
    THEN << <<"progress", i, Len(all_files), rel>> >>
    ELSE <<>>

LoopFrame == UNCHANGED <<remote, folder_old, folder_new, ignore_patterns, hide_ignored,
                         progress_callback, files_old, files_new, all_files, pc, dvars, nvars>>

\* lines 116-121 with the callback skipped when the record is hidden
LoopIgnored_quiet ==
    /\ InLoop
    /\ LET rel == all_files[i]
       IN /\ should_ignore(rel, ignore_patterns)
          /\ diffs' = IF ~hide_ignored
                      THEN Append(diffs, <<rel, "Ignored (pattern)", <<>>>>)
                      ELSE diffs
          /\ events' = events
                       \o (IF ~hide_ignored THEN << <<"record", rel>> >> \o Progress(rel)
                           ELSE <<>>)
    /\ i' = i + 1
    /\ LoopFrame

\* lines 116-121: an ignored path
LoopIgnored ==
    /\ InLoop
    /\ LET rel == all_files[i]
       IN /\ should_ignore(rel, ignore_patterns)
          /\ diffs' = IF ~hide_ignored
                      THEN Append(diffs, <<rel, "Ignored (pattern)", <<>>>>)
                      ELSE diffs
          /\ events' = events
                       \o (IF ~hide_ignored THEN << <<"record", rel>> >> ELSE <<>>)
                       \o Progress(rel)
    /\ i' = i + 1
    /\ LoopFrame

\* lines 123-124 with the old file's content fetched for the record
LoopOldOnly_reading ==
    /\ InLoop
    /\ LET rel == all_files[i]
           po == Get(files_old, rel)
           pn == Get(files_new, rel)
       IN /\ ~should_ignore(rel, ignore_patterns)
          /\ Truthy(po) /\ ~Truthy(pn)
          /\ \E lo \in ReadResults :
                /\ diffs' = Append(diffs, <<rel, "Only in Old Folder", <<>>>>)
                /\ events' = events
                             \o << <<"read", "old", po.path, rel, lo>>, <<"record", rel>> >>
                             \o Progress(rel)
    /\ i' = i + 1
    /\ LoopFrame

\* lines 123-124 and 135-136: a path only in the old folder
LoopOldOnly ==
    /\ InLoop
    /\ LET rel == all_files[i]
           po == Get(files_old, rel)
           pn == Get(files_new, rel)
       IN /\ ~should_ignore(rel, ignore_patterns)
          /\ Truthy(po) /\ ~Truthy(pn)
          /\ diffs' = Append(diffs, <<rel, "Only in Old Folder", <<>>>>)
          /\ events' = events \o << <<"record", rel>> >> \o Progress(rel)
    /\ i' = i + 1
    /\ LoopFrame

\* lines 125-126 and 135-136: a path only in the new folder
LoopNewOnly ==
    /\ InLoop
    /\ LET rel == all_files[i]
           po == Get(files_old, rel)
           pn == Get(files_new, rel)
       IN /\ ~should_ignore(rel, ignore_patterns)
          /\ ~(Truthy(po) /\ ~Truthy(pn))
          /\ Truthy(pn) /\ ~Truthy(po)
          /\ diffs' = Append(diffs, <<rel, "Only in New Folder", <<>>>>)
          /\ events' = events \o << <<"record", rel>> >> \o Progress(rel)
    /\ i' = i + 1
    /\ LoopFrame

\* lines 127-136: the else branch: both contents are read, old first, then
\* the record is classified
LoopBoth ==
    /\ InLoop
    /\ LET rel == all_files[i]
           po == Get(files_old, rel)
           pn == Get(files_new, rel)
       IN /\ ~should_ignore(rel, ignore_patterns)
          /\ ~(Truthy(po) /\ ~Truthy(pn))
          /\ ~(Truthy(pn) /\ ~Truthy(po))
          /\ \E lo \in ReadResults, ln \in ReadResults :
                LET c == Classify(lo, ln)
                IN /\ diffs' = Append(diffs, <<rel, c[1], c[2]>>)
                   /\ events' = events
                                \o << <<"read", "old", po.path, rel, lo>>,
                                      <<"read", "new", pn.path, rel, ln>>,
                                      <<"record", rel>> >>
                                \o Progress(rel)
    /\ i' = i + 1
    /\ LoopFrame

\* line 138: return diffs
CompareReturn ==
    /\ pc = "loop"
    /\ i > Len(all_files)
    /\ pc' = "done"
    /\ UNCHANGED <<remote, folder_old, folder_new, ignore_patterns, hide_ignored,
                   progress_callback, files_old, files_new, all_files, i, diffs,
                   events, dvars, nvars>>

Next ==
    \/ CompareStart
    \/ LoopIgnored
    \/ LoopOldOnly
    \/ LoopNewOnly
    \/ LoopBoth
    \/ CompareReturn

Spec == Init /\ [][Next]_vars

-----------------------------------------------------------------------------
(* Properties of compare_folders *)

Started == pc \in {"loop", "done"}

\* the union of the two key sets
Keys == DOMAIN files_old \cup DOMAIN files_new

Ignored(rel) == should_ignore(rel, ignore_patterns)

IsProgress(e) == e[1] = "progress"
IsRead(e) == e[1] = "read"

\* the progress callback's calls, in order
ProgressCalls == SelectSeq(events, IsProgress)

\* number of callback calls made before event number p
CallsBefore(p) == Len(SelectSeq(SubSeq(events, 1, p - 1), IsProgress))

\* position of rel in all_files
IndexOf(rel) == CHOOSE k \in 1..Len(all_files) : all_files[k] = rel

\* the result the content read of rel on `side` returned
ReadOf(rel, side) ==
    (CHOOSE p \in 1..Len(events) :
        IsRead(events[p]) /\ events[p][2] = side /\ events[p][4] = rel)

HasRead(rel, side) ==
    \E p \in 1..Len(events) :
        IsRead(events[p]) /\ events[p][2] = side /\ events[p][4] = rel

\* C1: the returned records are in strictly ascending lexicographic order
\* of relative path; there is a record for exactly the paths of the union
\* of both key sets, less the ignored ones when hide_ignored is set; the
\* record of an ignored path is Ignored with no aligned lines.
C1_SortedOncePerPath ==
    pc = "done" =>
        /\ \A k \in 1..(Len(diffs) - 1) : StrLess(diffs[k][1], diffs[k+1][1])
        /\ {diffs[k][1] : k \in 1..Len(diffs)}
              = {rel \in Keys : ~(Ignored(rel) /\ hide_ignored)}
        /\ \A k \in 1..Len(diffs) :
              Ignored(diffs[k][1]) <=>
                 (diffs[k][2] = "Ignored (pattern)" /\ diffs[k][3] = <<>>)

\* a finished run over three paths, one of them ignored and hidden, the
\* listings having come from the servers in another order than sorted
C1_Witness ==
    /\ pc = "done"
    /\ hide_ignored
    /\ Cardinality(Keys) = 3
    /\ Len(diffs) = 2
    /\ \E rel \in Keys : Ignored(rel)

\* C2: every content read is of a path that is not ignored and is in both
\* dicts, and reads that path's file on the side read.
C2_ReadsOnlyBothPresent ==
    \A p \in 1..Len(events) :
        IsRead(events[p]) =>
            LET rel == events[p][4]
            IN /\ rel \in DOMAIN files_old \cap DOMAIN files_new
               /\ ~Ignored(rel)
               /\ events[p][3] = IF events[p][2] = "old" THEN files_old[rel]
                                 ELSE files_new[rel]

\* a finished run that read some file, passed over an ignored path present
\* on both sides, and handled a path present on one side only
C2_Witness ==
    /\ pc = "done"
    /\ \E p \in 1..Len(events) : IsRead(events[p])
    /\ \E rel \in DOMAIN files_old \cap DOMAIN files_new : Ignored(rel)
    /\ \E rel \in Keys :
          ~Ignored(rel) /\ rel \notin DOMAIN files_old \cap DOMAIN files_new

\* C3: with a callback supplied, it has been called once for each path
\* handled so far, the k-th call carrying (k, size of the union, k-th path in
\* sorted order); all that is done for the k-th path (reads, the record)
\* comes after call k-1 and before call k; at the end processed = total.
C3_ProgressOncePerPath ==
    (Started /\ progress_callback # None) =>
        /\ Len(ProgressCalls) = i - 1
        /\ pc = "done" => Len(ProgressCalls) = Cardinality(Keys)
        /\ \A k \in 1..Len(ProgressCalls) :
              ProgressCalls[k] = <<"progress", k, Cardinality(Keys), all_files[k]>>
        /\ \A k \in 1..(Len(all_files) - 1) : StrLess(all_files[k], all_files[k+1])
        /\ {all_files[k] : k \in 1..Len(all_files)} = Keys
        /\ \A p \in 1..Len(events) :
              ~IsProgress(events[p]) =>
                 LET rel == IF IsRead(events[p]) THEN events[p][4] ELSE events[p][2]
                 IN CallsBefore(p) = IndexOf(rel) - 1

\* a finished run with a callback over three paths: one ignored and hidden,
\* one unreadable, one on one side only
C3_Witness ==
    /\ pc = "done"
    /\ progress_callback # None
    /\ hide_ignored
    /\ Len(all_files) = 3
    /\ \E rel \in Keys : Ignored(rel)
    /\ \E k \in 1..Len(diffs) : diffs[k][2] = "Binary or unreadable file"
    /\ \E k \in 1..Len(diffs) : diffs[k][2] = "Only in New Folder"

\* C4: the record of a path that is not ignored is Only-in-Old iff the path
\* is in the old dict only, Only-in-New iff in the new dict only, unreadable
\* with no lines iff it is in both and a read returned None, and otherwise
\* the side-by-side diff of the two read results; a read returning the empty
\* list is not a failure.
C4_Classification ==
    \A k \in 1..Len(diffs) :
        LET rel == diffs[k][1]
            status == diffs[k][2]
            inOld == rel \in DOMAIN files_old
            inNew == rel \in DOMAIN files_new
        IN ~Ignored(rel) =>
            /\ status = "Only in Old Folder" <=> (inOld /\ ~inNew)
            /\ status = "Only in New Folder" <=> (inNew /\ ~inOld)
            /\ (inOld /\ inNew) => (HasRead(rel, "old") /\ HasRead(rel, "new"))
            /\ status = "Binary or unreadable file" <=>
                  (inOld /\ inNew /\ (events[ReadOf(rel, "old")][5].none
                                      \/ events[ReadOf(rel, "new")][5].none))
            /\ status = "Side-by-side diff" <=>
                  (inOld /\ inNew /\ ~events[ReadOf(rel, "old")][5].none
                                  /\ ~events[ReadOf(rel, "new")][5].none)
            /\ status = "Side-by-side diff" =>
                  diffs[k][3] = side_by_side_diff(events[ReadOf(rel, "old")][5].lines,
                                                  events[ReadOf(rel, "new")][5].lines)
            /\ status # "Side-by-side diff" => diffs[k][3] = <<>>

\* a finished run holding a diffed record one side of which was read as an
\* empty file, and an unreadable record
C4_Witness ==
    /\ pc = "done"
    /\ \E k \in 1..Len(diffs) :
          /\ diffs[k][2] = "Side-by-side diff"
          /\ events[ReadOf(diffs[k][1], "old")][5] = ReadLines(<<>>)
          /\ diffs[k][3] # <<>>
    /\ \E k \in 1..Len(diffs) : diffs[k][2] = "Binary or unreadable file"

\* the files of `side` whose directory, and every directory above it up to
\* the root, lists successfully
Listable(side) ==
    {rel \in remote[side].files :
        /\ <<>> \notin remote[side].fails
        /\ rel = File_d_ax => Dir_d \notin remote[side].fails}

\* C6: a failed listing never leaves compare_folders as an exception; each
\* dict holds exactly the files of the directories that listed, none of a
\* failing subtree; and the run, once returned, holds a record for every
\* such file (a hidden ignored one excepted).
C6_ListingFailureTolerated ==
    /\ pc # "raised"
    /\ Started =>
          /\ files_old = [rel \in Listable("old") |-> RemoteRoot("old") \o <<"/">> \o rel]
          /\ files_new = [rel \in Listable("new") |-> RemoteRoot("new") \o <<"/">> \o rel]
    /\ pc = "done" =>
          \A rel \in Listable("old") \cup Listable("new") :
              \/ Ignored(rel) /\ hide_ignored
              \/ \E k \in 1..Len(diffs) : diffs[k][1] = rel

\* a finished run where listing d failed on the old side, which holds files
\* both in d and in the root, and the root's file has its record
C6_Witness ==
    /\ pc = "done"
    /\ remote["old"].fails = {Dir_d}
    /\ {File_a, File_d_ax} \subseteq remote["old"].files
    /\ File_d_ax \notin Keys
    /\ \E k \in 1..Len(diffs) : diffs[k][1] = File_a

-----------------------------------------------------------------------------
(* The "Run comparison" block: connect_sftp for each side, compare_folders, *)
(* and the finally clause.  A transport or SFTP client is named after the   *)
(* side it is opened for.  compare_folders enters only as a call that       *)
(* returns or raises: it opens and closes no connection.                    *)

TransportOf(side) == IF side = "old" THEN "transport_old" ELSE "transport_new"
SftpOf(side) == IF side = "old" THEN "sftp_old" ELSE "sftp_new"

InitConn ==
    /\ DiffIdle
    /\ CompareIdle
    /\ same_server \in BOOLEAN
    /\ sftp_old = None
    /\ t_old = None
    /\ sftp_new = None
    /\ t_new = None
    /\ connecting = None
    /\ transport = None
    /\ open_now = {}
    /\ opened = {}
    /\ exc = None
    /\ cpc = "submitted"

ConnFrame == UNCHANGED <<dvars, cvars, same_server>>

\* line 232, and entering the try block: the call connect_sftp for the old side
RunBegin ==
    /\ cpc = "submitted"
    /\ sftp_old' = None /\ t_old' = None /\ sftp_new' = None /\ t_new' = None
    /\ connecting' = "old"
    /\ cpc' = "transport"
    /\ UNCHANGED <<transport, open_now, opened, exc>>
    /\ ConnFrame

\* line 49: paramiko.Transport((host, port)) opens the connection, or raises
\* with nothing opened
TransportCreate ==
    /\ cpc = "transport"
    /\ \/ /\ transport' = TransportOf(connecting)
          /\ open_now' = open_now \cup {TransportOf(connecting)}
          /\ opened' = opened \cup {TransportOf(connecting)}
          /\ cpc' = "auth"
          /\ UNCHANGED exc
       \/ /\ exc' = "SSHException"
          /\ cpc' = "finally_sftp_new"
          /\ UNCHANGED <<transport, open_now, opened>>
    /\ UNCHANGED <<sftp_old, t_old, sftp_new, t_new, connecting>>
    /\ ConnFrame

\* line 50: transport.connect(username, password) succeeds, or raises and
\* leaves connect_sftp with the transport open
TransportConnect ==
    /\ cpc = "auth"
    /\ \/ /\ cpc' = "sftp"
          /\ UNCHANGED exc
       \/ /\ exc' = "AuthenticationException"
          /\ cpc' = "finally_sftp_new"
    /\ UNCHANGED <<sftp_old, t_old, sftp_new, t_new, connecting, transport,
                   open_now, opened>>
    /\ ConnFrame

\* after connect_sftp has returned (sftp, transport) for the side
\* `connecting`: lines 235-239 bind the names and go on to the new side's
\* connection or to the comparison
Bound(sftp) ==
    IF connecting = "old"
    THEN /\ sftp_old' = sftp
         /\ t_old' = transport
         /\ IF same_server
            THEN /\ sftp_new' = sftp
                 /\ t_new' = transport
                 /\ connecting' = None
                 /\ cpc' = "compare"
            ELSE /\ UNCHANGED <<sftp_new, t_new>>
                 /\ connecting' = "new"
                 /\ cpc' = "transport"
    ELSE /\ sftp_new' = sftp
         /\ t_new' = transport
         /\ UNCHANGED <<sftp_old, t_old>>
         /\ connecting' = None
         /\ cpc' = "compare"

\* lines 51-52: SFTPClient.from_transport(transport) returns a client,
\* returns None (no channel), or raises
SftpFromTransport ==
    /\ cpc = "sftp"
    /\ \/ /\ open_now' = open_now \cup {SftpOf(connecting)}
          /\ opened' = opened \cup {SftpOf(connecting)}
          /\ Bound(SftpOf(connecting))
          /\ UNCHANGED exc
       \/ /\ Bound(None)
          /\ UNCHANGED <<open_now, opened, exc>>
       \/ /\ exc' = "SSHException"
          /\ cpc' = "finally_sftp_new"
          /\ UNCHANGED <<sftp_old, t_old, sftp_new, t_new, connecting,
                         open_now, opened>>
    /\ UNCHANGED transport
    /\ ConnFrame

\* lines 241-253: compare_folders and the lines after it return, or an
\* exception leaves the try block
CompareCall ==
    /\ cpc = "compare"
    /\ \/ UNCHANGED exc
       \/ exc' = "Exception"
    /\ cpc' = "finally_sftp_new"
    /\ UNCHANGED <<sftp_old, t_old, sftp_new, t_new, connecting, transport,
                   open_now, opened>>
    /\ ConnFrame

FinallyFrame == UNCHANGED <<sftp_old, t_old, sftp_new, t_new, connecting, transport,
                            opened, exc>>

\* line 256: if not same_server and sftp_new: sftp_new.close()
FinallySftpNew ==
    /\ cpc = "finally_sftp_new"
    /\ open_now' = IF ~same_server /\ sftp_new # None
                   THEN open_now \ {sftp_new} ELSE open_now
    /\ cpc' = "finally_sftp_old"
    /\ FinallyFrame
    /\ ConnFrame

\* line 257: if sftp_old: sftp_old.close()
FinallySftpOld ==
    /\ cpc = "finally_sftp_old"
    /\ open_now' = IF sftp_old # None THEN open_now \ {sftp_old} ELSE open_now
    /\ cpc' = "finally_t_old"
    /\ FinallyFrame
    /\ ConnFrame

\* line 258: if t_old: t_old.close()
FinallyTOld ==
    /\ cpc = "finally_t_old"
    /\ open_now' = IF t_old # None THEN open_now \ {t_old} ELSE open_now
    /\ cpc' = "finally_t_new"
    /\ FinallyFrame
    /\ ConnFrame

\* line 259: if t_new and not same_server: t_new.close(); the block is left
FinallyTNew ==
    /\ cpc = "finally_t_new"
    /\ open_now' = IF t_new # None /\ ~same_server
                   THEN open_now \ {t_new} ELSE open_now
    /\ cpc' = "left"
    /\ FinallyFrame
    /\ ConnFrame

NextConn ==
    \/ RunBegin
    \/ TransportCreate
    \/ TransportConnect
    \/ SftpFromTransport
    \/ CompareCall
    \/ FinallySftpNew
    \/ FinallySftpOld
    \/ FinallyTOld
    \/ FinallyTNew

SpecConn == InitConn /\ [][NextConn]_vars

\* C5: every transport or SFTP client opened for a run is closed by the time
\* the run block is left, however the block is left.
C5_AllReleasedOnExit ==
    cpc = "left" => open_now = {}

-----------------------------------------------------------------------------
(* The aligner as a state machine: one call of side_by_side_diff followed  *)
(* by the aggregate query on its result.                                   *)

InitDiff ==
    /\ CompareIdle
    /\ ConnIdle
    /\ lines_old \in SeqsUpTo(LineTexts, MaxLen)
    /\ lines_new \in SeqsUpTo(LineTexts, MaxLen)
    /\ opcodes = <<>>
    /\ opidx = 0
    /\ diff = <<>>
    /\ dstatus = None
    /\ dpc = "call"

\* diff = []; sm = SequenceMatcher(None, lines_old, lines_new); sm.get_opcodes()
DiffBegin ==
    /\ dpc = "call"
    /\ opcodes' = get_opcodes(lines_old, lines_new)
    /\ opidx' = 0
    /\ diff' = <<>>
    /\ dpc' = "loop"
    /\ UNCHANGED <<lines_old, lines_new, dstatus, cvars, nvars>>

\* one iteration of the for loop over the opcodes
DiffOpcode ==
    /\ dpc = "loop"
    /\ opidx < Len(opcodes)
    /\ diff' = diff \o OpcodePairs(lines_old, lines_new, opcodes[opidx + 1])
    /\ opidx' = opidx + 1
    /\ UNCHANGED <<lines_old, lines_new, opcodes, dstatus, dpc, cvars, nvars>>

\* return diff
DiffReturn ==
    /\ dpc = "loop"
    /\ opidx = Len(opcodes)
    /\ dpc' = "done"
    /\ UNCHANGED <<lines_old, lines_new, opcodes, opidx, diff, dstatus, cvars, nvars>>

\* file_diff_status("Side-by-side diff", diff) on the returned record
DiffQuery ==
    /\ dpc = "done"
    /\ dstatus' = file_diff_status("Side-by-side diff", diff)
    /\ dpc' = "queried"
    /\ UNCHANGED <<lines_old, lines_new, opcodes, opidx, diff, cvars, nvars>>

NextDiff == DiffBegin \/ DiffOpcode \/ DiffReturn \/ DiffQuery

SpecDiff == InitDiff /\ [][NextDiff]_vars

-----------------------------------------------------------------------------
(* Properties of the aligner *)

DiffReturned == dpc \in {"done", "queried"}

\* number of pairs an opcode run stands for: max(Lo, Ln)
RunPairs(op) == Max(op[3] - op[2], op[5] - op[4])

\* number of pairs the first n opcode runs stand for
RECURSIVE RunOffset(_, _)
RunOffset(ops, n) == IF n = 0 THEN 0 ELSE RunOffset(ops, n-1) + RunPairs(ops[n])

\* position k of diff is a padded position of the run it lies in: the run
\* has no old line, or no new line, for it
PaddedAt(k) ==
    \E n \in 1..opidx :
        LET off == RunOffset(opcodes, n-1)
            Lo == opcodes[n][3] - opcodes[n][2]
            Ln == opcodes[n][5] - opcodes[n][4]
        IN /\ off < k /\ k <= off + Max(Lo, Ln)
           /\ (k - off > Lo \/ k - off > Ln)

\* C7: side_by_side_diff(a, a) returns exactly len(a) pairs, the i-th being
\* (a[i], a[i], Unchanged), for every a (empty, repeated and empty lines
\* included).
C7_IdenticalAllUnchanged ==
    (DiffReturned /\ lines_old = lines_new) =>
        diff = [k \in 1..Len(lines_old) |-> <<lines_old[k], lines_old[k], "Unchanged">>]

\* a finished diff of a three-line sequence with a repeated and an empty line
\* against itself
C7_Witness ==
    /\ dpc = "done"
    /\ lines_old = <<"a", "", "a">>
    /\ lines_new = lines_old

\* C8: every replace run (old length Lo, new length Ln) the loop has
\* consumed stands in diff as exactly max(Lo, Ln) consecutive pairs, in
\* positional order, the shorter side filled with "" at the trailing
\* positions, every pair Modified; the next run starts right after them.
C8_ReplaceRunPadded ==
    /\ Len(diff) = RunOffset(opcodes, opidx)
    /\ \A n \in 1..opidx :
        opcodes[n][1] = "replace" =>
            LET op == opcodes[n]
                off == RunOffset(opcodes, n-1)
                Lo == op[3] - op[2]
                Ln == op[5] - op[4]
            IN \A k \in 1..Max(Lo, Ln) :
                  diff[off + k] =
                     <<IF k <= Lo THEN lines_old[op[2] + k] ELSE "",
                       IF k <= Ln THEN lines_new[op[4] + k] ELSE "",
                       "Modified">>

\* a returned diff holding a replace run whose sides differ in length, both
\* ways round being reachable; here the old side is the shorter, padded one
C8_Witness ==
    /\ dpc = "done"
    /\ \E n \in 1..Len(opcodes) :
          /\ opcodes[n][1] = "replace"
          /\ opcodes[n][3] - opcodes[n][2] < opcodes[n][5] - opcodes[n][4]
          /\ diff[RunOffset(opcodes, n)][1] = ""
          /\ diff[RunOffset(opcodes, n)][3] = "Modified"

C10_StatusIffEqual ==
    /\ DiffReturned =>
          ((\A k \in 1..Len(diff) : diff[k][3] = "Unchanged") <=> lines_old = lines_new)
    /\ dpc = "queried" =>
          /\ dstatus = "No differences" <=> lines_old = lines_new
          /\ dstatus = "Changed" <=> lines_old # lines_new

\* the query answered on a diff of two different sequences that share a line
C10_Witness ==
    /\ dpc = "queried"
    /\ lines_old # lines_new
    /\ dstatus = "Changed"
    /\ \E k \in 1..Len(diff) : diff[k][3] = "Unchanged"

=============================================================================
